---- MODULE Spec2Model ----
(***************************************************************************)
(* SourceNormalizer: the content classifier (classify_errors), the         *)
(* fixable predicate (is_fixable), the fixer (fix_the_file) and the        *)
(* per-file session (Normalizer::normalize) with its backup-then-rename    *)
(* replacement of the original file.                                       *)
(*                                                                         *)
(* Bytes are integers 0..255, buffers are sequences of bytes, a set of     *)
(* error bits is the unsigned integer the code keeps.                      *)
(***************************************************************************)
EXTENDS Integers, Sequences, FiniteSets, TLC

VARIABLES
    hi_isspace,   \* what isspace() answers for a negative char (not EOF) in this build
    hi_isprint,   \* what isprint() answers for a negative char (not EOF) in this build
    chk,          \* is_fixable called on one error word
    cls,          \* one run of classify_errors, byte by byte
    fxr,          \* fix_the_file run on a buffer, then on its own output
    inv,          \* classify_invalid called on one buffer
    u16,          \* one run of Utf16Checker::check, code unit by code unit
    pc,           \* Normalizer::normalize: the statement it is at
    fs,           \* the files at <path>, <path>.bak~ and <path>.tmp~
    fs0,          \* the files as they were when normalize was called
    can_open,     \* whether <path> can be opened for reading
    fix,          \* the fix flag of this invocation
    tabsize,      \* Options::m_tabsize of this invocation
    m_data,       \* Normalizer::m_data
    m_errors,     \* Normalizer::m_errors
    m_error_message, \* Normalizer::m_error_message, as a sequence of tokens
    cerr,         \* the lines written to the diagnostic stream
    events        \* the file operations normalize has carried out, in order

vars == <<hi_isspace, hi_isprint, chk, cls, fxr, inv, u16, pc, fs, fs0, can_open, fix,
          tabsize, m_data, m_errors, m_error_message, cerr, events>>

buildVars == <<hi_isspace, hi_isprint>>
checkerVars == <<inv, u16>>
sessionVars == <<pc, fs, fs0, can_open, fix, tabsize, m_data, m_errors,
                 m_error_message, cerr, events>>

----------------------------------------------------------------------------
(* Bounds of the model *)

\* longest buffer enumerated exhaustively for the classifier
MaxLen == 4
\* longest buffer enumerated exhaustively for the fixer
MaxFixLen == 4
\* largest tab width tried
MaxTab == 4
\* longest file content enumerated exhaustively for a session
MaxFileLen == 2

----------------------------------------------------------------------------
(* Characters *)

TAB == 9
LF == 10
VT == 11
FF == 12
CR == 13
SPACE == 32
TILDE == 126

RECURSIVE SeqsUpTo(_, _)
SeqsUpTo(S, n) ==
    IF n = 0 THEN {<<>>}
    ELSE LET shorter == SeqsUpTo(S, n - 1)
         IN  shorter \cup {Append(s, x) : s \in {t \in shorter : Len(t) = n - 1}, x \in S}

\* the value of a byte read through a (signed) char
ToChar(b) == IF b >= 128 THEN b - 256 ELSE b

\* isspace() of <cctype> in the "C" locale; a negative argument other than
\* EOF is outside its domain and the answer is whatever the build gives
isspace(ch) ==
    IF ch < -1 THEN hi_isspace
    ELSE ch \in {TAB, LF, VT, FF, CR, SPACE}

\* isprint() of <cctype> in the "C" locale, likewise
isprint(ch) ==
    IF ch < -1 THEN hi_isprint
    ELSE ch >= SPACE /\ ch <= TILDE

----------------------------------------------------------------------------
(* Error bits *)

err_tabs == 1
err_unusual_whitespace == 2
err_trailing_whitespace == 4
err_cr_lf_line_endings == 8
err_no_lf_at_end == 16
err_fixable == 255
err_invalid_encoding == 256
err_invalid_characters == 512
err_not_a_text_file == 1024
err_hopeless == 65280

RECURSIVE BitAnd(_, _)
BitAnd(a, b) ==
    IF a = 0 \/ b = 0 THEN 0
    ELSE (a % 2) * (b % 2) + 2 * BitAnd(a \div 2, b \div 2)

BitOr(a, b) == a + b - BitAnd(a, b)

FixableBits == {err_tabs, err_unusual_whitespace, err_trailing_whitespace,
                err_cr_lf_line_endings, err_no_lf_at_end}
HopelessBits == {err_invalid_encoding, err_invalid_characters, err_not_a_text_file}

RECURSIVE SumOf(_)
SumOf(S) == IF S = {} THEN 0 ELSE LET x == CHOOSE y \in S : TRUE IN x + SumOf(S \ {x})

\* every value a DefectSet can take
AllErrors == {SumOf(S) : S \in SUBSET (FixableBits \cup HopelessBits)}

HasBit(errors, bit) == BitAnd(errors, bit) # 0

is_fixable_ignoring_hopeless(errors) ==
    BitAnd(errors, err_fixable) # 0

is_fixable(errors) ==
    IF BitAnd(errors, err_hopeless) # 0 THEN FALSE
    ELSE IF BitAnd(errors, err_fixable) # 0 THEN TRUE
    ELSE FALSE

----------------------------------------------------------------------------
(* classify_errors *)

not_a_space == 0

ClassifyStart_no_end_check(data) ==
    [errors |-> 0,
     unusual_whitespace |-> 0,
     penultimate |-> not_a_space,
     antepenultimate |-> not_a_space]

\* the locals of classify_errors before the loop
ClassifyStart(data) ==
    [errors |-> IF Len(data) > 0 /\ data[Len(data)] # LF THEN err_no_lf_at_end ELSE 0,
     unusual_whitespace |-> 0,
     penultimate |-> not_a_space,
     antepenultimate |-> not_a_space]

ClassifyLineFeed_no_adjust(st) ==
    LET crlf == st.penultimate = CR
        last_character == IF crlf THEN st.antepenultimate ELSE st.penultimate
        e1 == IF crlf THEN BitOr(st.errors, err_cr_lf_line_endings) ELSE st.errors
        e2 == IF isspace(last_character) THEN BitOr(e1, err_trailing_whitespace) ELSE e1
        pen == IF crlf THEN not_a_space ELSE st.penultimate
    IN  [errors |-> e2,
         unusual_whitespace |-> st.unusual_whitespace,
         antepenultimate |-> pen,
         penultimate |-> not_a_space]

ClassifyLineFeed_keeping_lf(st) ==
    LET crlf == st.penultimate = CR
        last_character == IF crlf THEN st.antepenultimate ELSE st.penultimate
        e1 == IF crlf THEN BitOr(st.errors, err_cr_lf_line_endings) ELSE st.errors
        e2 == IF isspace(last_character) THEN BitOr(e1, err_trailing_whitespace) ELSE e1
        pen == IF crlf THEN not_a_space ELSE st.penultimate
    IN  [errors |-> e2,
         unusual_whitespace |-> IF crlf THEN st.unusual_whitespace - 1
                                ELSE st.unusual_whitespace,
         antepenultimate |-> pen,
         penultimate |-> LF]

\* case '\n' of the switch, followed by the two assignments that end the iteration
ClassifyLineFeed(st) ==
    LET crlf == st.penultimate = CR
        last_character == IF crlf THEN st.antepenultimate ELSE st.penultimate
        e1 == IF crlf THEN BitOr(st.errors, err_cr_lf_line_endings) ELSE st.errors
        e2 == IF isspace(last_character) THEN BitOr(e1, err_trailing_whitespace) ELSE e1
        pen == IF crlf THEN not_a_space ELSE st.penultimate
    IN  [errors |-> e2,
         unusual_whitespace |-> IF crlf THEN st.unusual_whitespace - 1
                                ELSE st.unusual_whitespace,
         antepenultimate |-> pen,
         penultimate |-> not_a_space]

\* one iteration of the while loop on the byte `current`
ClassifyByte(st, current) ==
    IF current < SPACE \/ current > TILDE
    THEN CASE current = LF -> ClassifyLineFeed(st)
           [] current = TAB ->
                [st EXCEPT !.errors = BitOr(st.errors, err_tabs),
                           !.antepenultimate = st.penultimate,
                           !.penultimate = current]
           [] current \in {CR, VT, FF} ->
                [st EXCEPT !.unusual_whitespace = st.unusual_whitespace + 1,
                           !.antepenultimate = st.penultimate,
                           !.penultimate = current]
           [] OTHER ->
                [st EXCEPT !.errors = BitOr(st.errors, err_invalid_characters),
                           !.antepenultimate = st.penultimate,
                           !.penultimate = current]
    ELSE [st EXCEPT !.antepenultimate = st.penultimate,
                    !.penultimate = current]

\* the statements after the loop: the value returned
ClassifyEnd(st) ==
    IF st.unusual_whitespace # 0 THEN BitOr(st.errors, err_unusual_whitespace)
    ELSE st.errors

RECURSIVE ClassifyFrom(_, _, _)
ClassifyFrom(st, data, i) ==
    IF i > Len(data) THEN st
    ELSE ClassifyFrom(ClassifyByte(st, data[i]), data, i + 1)

classify_errors(data) == ClassifyEnd(ClassifyFrom(ClassifyStart(data), data, 1))

----------------------------------------------------------------------------
(* fix_the_file: the corrected content *)

Spaces(n) == [i \in 1..n |-> SPACE]

trim_nothing(text) == text

RECURSIVE trim(_)
\* trim: drop the space characters at the end of the line
trim(text) ==
    IF text # <<>> /\ text[Len(text)] = SPACE
    THEN trim(SubSeq(text, 1, Len(text) - 1))
    ELSE text

append_tab_as_spaces(text, tab_width) ==
    LET length == Len(text)
        tabbed_length == tab_width * ((length + tab_width - 1) \div tab_width)
        count == tabbed_length - length
    IN  text \o Spaces(count)

FixByte_no_clear(st, byte, tab_width) ==
    LET ch == ToChar(byte)
    IN  IF ~isspace(ch)
        THEN [st EXCEPT !.line = Append(st.line, byte)]
        ELSE CASE ch = TAB ->
                    [st EXCEPT !.line = append_tab_as_spaces(st.line, tab_width)]
               [] ch = LF ->
                    [line |-> trim(st.line),
                     output |-> st.output \o trim(st.line) \o <<LF>>]
               [] OTHER ->
                    [st EXCEPT !.line = Append(st.line, SPACE)]

FixByte_line_feed_first(st, byte, tab_width) ==
    LET ch == ToChar(byte)
    IN  IF ~isspace(ch)
        THEN [st EXCEPT !.line = Append(st.line, byte)]
        ELSE CASE ch = TAB ->
                    [st EXCEPT !.line = append_tab_as_spaces(st.line, tab_width)]
               [] ch = LF ->
                    [line |-> trim(st.line), output |-> st.output \o <<LF>>]
               [] OTHER ->
                    [st EXCEPT !.line = Append(st.line, SPACE)]

\* one iteration of the while loop of fix_the_file on the byte at the cursor;
\* line is the pending line, output what has been written to the stream
FixByte(st, byte, tab_width) ==
    LET ch == ToChar(byte)
    IN  IF ~isspace(ch)
        THEN [st EXCEPT !.line = Append(st.line, byte)]
        ELSE CASE ch = TAB ->
                    [st EXCEPT !.line = append_tab_as_spaces(st.line, tab_width)]
               [] ch = LF ->
                    [line |-> <<>>, output |-> st.output \o trim(st.line) \o <<LF>>]
               [] OTHER ->
                    [st EXCEPT !.line = Append(st.line, SPACE)]

FixPending_always(st) ==
    [line |-> trim(st.line), output |-> st.output \o trim(st.line) \o <<LF>>]

\* after the loop: the last line, when the data did not end with a line feed
FixPending(st) ==
    LET line == trim(st.line)
    IN  IF line # <<>>
        THEN [line |-> line, output |-> st.output \o line \o <<LF>>]
        ELSE [line |-> line, output |-> st.output]

RECURSIVE FixFrom(_, _, _, _)
FixFrom(st, data, i, tab_width) ==
    IF i > Len(data) THEN st
    ELSE FixFrom(FixByte(st, data[i], tab_width), data, i + 1, tab_width)

\* everything fix_the_file(tab_width) writes to the temporary file for m_data = data
FixedContent(data, tab_width) ==
    FixPending(FixFrom([line |-> <<>>, output |-> <<>>], data, 1, tab_width)).output

----------------------------------------------------------------------------
(* What each part of the model holds while another part is exercised *)

NoFile == [exists |-> FALSE, content |-> <<>>]
File(content) == [exists |-> TRUE, content |-> content]

BuildInit == hi_isspace \in BOOLEAN /\ hi_isprint \in BOOLEAN

ChkIdle == chk = [errors |-> 0, called |-> FALSE, result |-> FALSE]

ClsIdle ==
    cls = [data |-> <<>>, size |-> 0, st |-> ClassifyStart(<<>>),
           at |-> "idle", errors |-> 0]

FxrIdle ==
    fxr = [data |-> <<>>, tab_width |-> 1, cursor |-> 1,
           st |-> [line |-> <<>>, output |-> <<>>], pass |-> 1, first |-> <<>>,
           done |-> FALSE, last |-> "none", col |-> 0]

InvIdle == inv = [data |-> <<>>, called |-> FALSE, result |-> 0]

U16Idle ==
    u16 = [data |-> <<>>, at |-> "idle", little_endian |-> TRUE, first |-> 1,
           pos |-> 1, previous_type |-> 0,
           counts |-> [normal_ascii |-> 0, weird_ascii |-> 0, total_characters |-> 0],
           err |-> 0]

SessionIdle ==
    /\ pc = "idle"
    /\ fs = [orig |-> NoFile, bak |-> NoFile, tmp |-> NoFile]
    /\ fs0 = fs
    /\ can_open = FALSE
    /\ fix = FALSE
    /\ tabsize = 4
    /\ m_data = <<>>
    /\ m_errors = 0
    /\ m_error_message = <<>>
    /\ cerr = <<>>
    /\ events = <<>>

----------------------------------------------------------------------------
(* SpecFixable: is_fixable applied to every DefectSet value *)

InitFixable ==
    /\ BuildInit
    /\ chk \in {[errors |-> e, called |-> FALSE, result |-> FALSE] : e \in AllErrors}
    /\ ClsIdle /\ FxrIdle /\ InvIdle /\ U16Idle /\ SessionIdle

CallIsFixable ==
    /\ ~chk.called
    /\ chk' = [chk EXCEPT !.called = TRUE, !.result = is_fixable(chk.errors)]
    /\ UNCHANGED <<buildVars, checkerVars, cls, fxr, sessionVars>>

NextFixable == CallIsFixable

SpecFixable == InitFixable /\ [][NextFixable]_vars

----------------------------------------------------------------------------
(* SpecClassify: classify_errors run byte by byte over every small buffer *)

\* a letter, a control character that is no whitespace, a byte above ASCII
ClassifyAlphabet == {97, SPACE, TAB, LF, VT, CR, 1, 128}

\* "abc\r\ndef\n", "abc \n", "abc\n", "abc", "a\f\n"
ClassifySamples ==
    {<<97, 98, 99, 13, 10, 100, 101, 102, 10>>,
     <<97, 98, 99, 32, 10>>,
     <<97, 98, 99, 10>>,
     <<97, 98, 99>>,
     <<97, 12, 10>>}

ClassifyBuffers == SeqsUpTo(ClassifyAlphabet, MaxLen) \cup ClassifySamples

\* classify_errors(data, size) has been called and has reached its loop
ClassifyCall(d) ==
    [data |-> d, size |-> Len(d), st |-> ClassifyStart(d), at |-> "loop", errors |-> 0]

InitClassify ==
    /\ BuildInit
    /\ cls \in {ClassifyCall(d) : d \in ClassifyBuffers}
    /\ ChkIdle /\ FxrIdle /\ InvIdle /\ U16Idle /\ SessionIdle

\* while (size--) { ... }
ClassifyStep ==
    /\ cls.at = "loop"
    /\ cls.size > 0
    /\ cls' = [cls EXCEPT
                 !.st = ClassifyByte(cls.st, cls.data[Len(cls.data) - cls.size + 1]),
                 !.size = cls.size - 1]
    /\ UNCHANGED <<buildVars, checkerVars, chk, fxr, sessionVars>>

\* the loop has ended: return errors
ClassifyReturn ==
    /\ cls.at = "loop"
    /\ cls.size = 0
    /\ cls' = [cls EXCEPT !.at = "returned", !.errors = ClassifyEnd(cls.st)]
    /\ UNCHANGED <<buildVars, checkerVars, chk, fxr, sessionVars>>

NextClassify == ClassifyStep \/ ClassifyReturn

SpecClassify == InitClassify /\ [][NextClassify]_vars

----------------------------------------------------------------------------
(* SpecFix: the loop of fix_the_file run byte by byte over every small      *)
(* buffer and every tab width, then once more over its own output           *)

FixAlphabet == {97, SPACE, TAB, LF, CR, 128}

\* "a\tb", "ab\tcd", "abc", "abc \n", "abc\r\ndef\n", "a\v\f\x01b", "abcd\te\n"
FixSamples ==
    {<<97, 9, 98>>,
     <<97, 98, 9, 99, 100>>,
     <<97, 98, 99>>,
     <<97, 98, 99, 32, 10>>,
     <<97, 98, 99, 13, 10, 100, 101, 102, 10>>,
     <<97, 11, 12, 1, 98>>,
     <<97, 98, 99, 100, 9, 101, 10>>}

FixBuffers == SeqsUpTo(FixAlphabet, MaxFixLen) \cup FixSamples

InitFix ==
    /\ BuildInit
    /\ fxr \in {[data |-> d, tab_width |-> w, cursor |-> 1,
                 st |-> [line |-> <<>>, output |-> <<>>], pass |-> 1,
                 first |-> <<>>, done |-> FALSE, last |-> "none", col |-> 0] :
                d \in FixBuffers, w \in 1..MaxTab}
    /\ ChkIdle /\ ClsIdle /\ InvIdle /\ U16Idle /\ SessionIdle

\* while (cursor != end) { ... }
FixStep ==
    /\ ~fxr.done
    /\ fxr.cursor <= Len(fxr.data)
    /\ fxr' = [fxr EXCEPT
                 !.st = FixByte(fxr.st, fxr.data[fxr.cursor], fxr.tab_width),
                 !.cursor = fxr.cursor + 1,
                 !.last = IF fxr.data[fxr.cursor] = TAB THEN "tab" ELSE "other",
                 !.col = Len(fxr.st.line)]
    /\ UNCHANGED <<buildVars, checkerVars, chk, cls, sessionVars>>

\* the loop has ended: the pending line, then flush
FixFinish ==
    /\ ~fxr.done
    /\ fxr.cursor > Len(fxr.data)
    /\ fxr' = [fxr EXCEPT !.st = FixPending(fxr.st), !.done = TRUE, !.last = "none"]
    /\ UNCHANGED <<buildVars, checkerVars, chk, cls, sessionVars>>

\* the fixer is run again, on what it wrote
FixAgain ==
    /\ fxr.done
    /\ fxr.pass = 1
    /\ fxr' = [fxr EXCEPT !.data = fxr.st.output, !.cursor = 1,
                          !.st = [line |-> <<>>, output |-> <<>>],
                          !.pass = 2, !.first = fxr.st.output, !.done = FALSE]
    /\ UNCHANGED <<buildVars, checkerVars, chk, cls, sessionVars>>

NextFix == FixStep \/ FixFinish \/ FixAgain

SpecFix == InitFix /\ [][NextFix]_vars

----------------------------------------------------------------------------
(* Utf16Checker *)

ascii_del_character == 127
min_high_surrogate == 55296
min_low_surrogate == 56320
max_low_surrogate == 57343
MAX_UNITS_TO_EXAMINE == 1000

UNICODE_CHARACTER == 0
HIGH_SURROGATE == 1
LOW_SURROGATE == 2

eOK == 0
eSIZE == 1
eINVALID == 2

unit_type(code) ==
    IF code < min_high_surrogate THEN UNICODE_CHARACTER
    ELSE IF code < min_low_surrogate THEN HIGH_SURROGATE
    ELSE IF code <= max_low_surrogate THEN LOW_SURROGATE
    ELSE UNICODE_CHARACTER

is_normal_ascii(code) ==
    IF code > TILDE \/ code < TAB THEN FALSE
    ELSE IF code >= SPACE THEN TRUE
    ELSE IF code <= CR THEN TRUE
    ELSE FALSE

\* the code unit whose first byte is data[i]
get_le_unit(data, i) == data[i] + 256 * data[i + 1]
get_be_unit(data, i) == 256 * data[i] + data[i + 1]

determine_endiannes_preferring_big(data) ==
    IF data[1] = 255 /\ data[2] = 254 THEN [little_endian |-> TRUE, first |-> 3]
    ELSE IF data[1] = 254 /\ data[2] = 255 THEN [little_endian |-> FALSE, first |-> 3]
    ELSE LET last == IF 2 * MAX_UNITS_TO_EXAMINE > Len(data) THEN Len(data)
                     ELSE 2 * MAX_UNITS_TO_EXAMINE
             at == {i \in 1..last : i % 2 = 1}
             le == Cardinality({i \in at : is_normal_ascii(get_le_unit(data, i))})
             be == Cardinality({i \in at : is_normal_ascii(get_be_unit(data, i))})
         IN  [little_endian |-> ~(be >= le), first |-> 1]

\* m_little_endian and the index of the first byte after the byte order mark
determine_endiannes(data) ==
    IF data[1] = 255 /\ data[2] = 254 THEN [little_endian |-> TRUE, first |-> 3]
    ELSE IF data[1] = 254 /\ data[2] = 255 THEN [little_endian |-> FALSE, first |-> 3]
    ELSE LET last == IF 2 * MAX_UNITS_TO_EXAMINE > Len(data) THEN Len(data)
                     ELSE 2 * MAX_UNITS_TO_EXAMINE
             at == {i \in 1..last : i % 2 = 1}
             le == Cardinality({i \in at : is_normal_ascii(get_le_unit(data, i))})
             be == Cardinality({i \in at : is_normal_ascii(get_be_unit(data, i))})
         IN  [little_endian |-> ~(be > le), first |-> 1]

\* Utf16Checker::next_unit for the unit whose first byte is data[i]
next_unit(data, i, little_endian) ==
    IF little_endian THEN get_le_unit(data, i) ELSE get_be_unit(data, i)

CheckUnit_pair_left_open(unit, previous_type, counts) ==
    LET type == unit_type(unit)
    IN  CASE type = UNICODE_CHARACTER ->
               IF previous_type # UNICODE_CHARACTER
               THEN [err |-> eINVALID, type |-> type, counts |-> counts]
               ELSE LET ascii == unit <= ascii_del_character
                    IN  [err |-> eOK, type |-> type,
                         counts |-> [counts EXCEPT
                            !.normal_ascii =
                                IF ascii /\ is_normal_ascii(unit) THEN @ + 1 ELSE @,
                            !.weird_ascii =
                                IF ascii /\ ~is_normal_ascii(unit) THEN @ + 1 ELSE @,
                            !.total_characters = @ + 1]]
          [] type = HIGH_SURROGATE ->
               IF previous_type = HIGH_SURROGATE
               THEN [err |-> eINVALID, type |-> type, counts |-> counts]
               ELSE [err |-> eOK, type |-> type, counts |-> counts]
          [] OTHER ->
               IF previous_type # HIGH_SURROGATE
               THEN [err |-> eINVALID, type |-> type, counts |-> counts]
               ELSE [err |-> eOK, type |-> type,
                     counts |-> [counts EXCEPT !.total_characters = @ + 1]]

\* one iteration of the for loop of Utf16Checker::check, for the run that
\* is followed unit by unit: eINVALID when it returns from inside the loop,
\* else the new previous_type and m_counts
CheckUnit(unit, previous_type, counts) ==
    LET type == unit_type(unit)
    IN  CASE type = UNICODE_CHARACTER ->
               IF previous_type # UNICODE_CHARACTER
               THEN [err |-> eINVALID, type |-> type, counts |-> counts]
               ELSE LET ascii == unit <= ascii_del_character
                    IN  [err |-> eOK, type |-> type,
                         counts |-> [counts EXCEPT
                            !.normal_ascii =
                                IF ascii /\ is_normal_ascii(unit) THEN @ + 1 ELSE @,
                            !.weird_ascii =
                                IF ascii /\ ~is_normal_ascii(unit) THEN @ + 1 ELSE @,
                            !.total_characters = @ + 1]]
          [] type = HIGH_SURROGATE ->
               IF previous_type = HIGH_SURROGATE
               THEN [err |-> eINVALID, type |-> type, counts |-> counts]
               ELSE [err |-> eOK, type |-> type, counts |-> counts]
          [] OTHER ->
               IF previous_type # HIGH_SURROGATE
               THEN [err |-> eINVALID, type |-> type, counts |-> counts]
               ELSE [err |-> eOK, type |-> UNICODE_CHARACTER,
                     counts |-> [counts EXCEPT !.total_characters = @ + 1]]

\* the test that follows the loop
CheckEnd(previous_type) ==
    IF previous_type # UNICODE_CHARACTER THEN eINVALID ELSE eOK

RECURSIVE CheckUnits(_, _, _, _, _)
\* the for loop of Utf16Checker::check from the unit at data[i] on, and the
\* test that follows it
CheckUnits(data, i, little_endian, previous_type, counts) ==
    IF i > Len(data)
    THEN [err |-> IF previous_type # UNICODE_CHARACTER THEN eINVALID ELSE eOK,
          counts |-> counts]
    ELSE LET unit == IF little_endian THEN get_le_unit(data, i) ELSE get_be_unit(data, i)
             type == unit_type(unit)
         IN  CASE type = UNICODE_CHARACTER ->
                    IF previous_type # UNICODE_CHARACTER
                    THEN [err |-> eINVALID, counts |-> counts]
                    ELSE LET ascii == unit <= ascii_del_character
                             c1 == [counts EXCEPT
                                      !.normal_ascii =
                                          IF ascii /\ is_normal_ascii(unit) THEN @ + 1 ELSE @,
                                      !.weird_ascii =
                                          IF ascii /\ ~is_normal_ascii(unit) THEN @ + 1 ELSE @,
                                      !.total_characters = @ + 1]
                         IN  CheckUnits(data, i + 2, little_endian, type, c1)
               [] type = HIGH_SURROGATE ->
                    IF previous_type = HIGH_SURROGATE
                    THEN [err |-> eINVALID, counts |-> counts]
                    ELSE CheckUnits(data, i + 2, little_endian, type, counts)
               [] OTHER ->
                    IF previous_type # HIGH_SURROGATE
                    THEN [err |-> eINVALID, counts |-> counts]
                    ELSE CheckUnits(data, i + 2, little_endian, UNICODE_CHARACTER,
                                    [counts EXCEPT !.total_characters = @ + 1])

NoCounts == [normal_ascii |-> 0, weird_ascii |-> 0, total_characters |-> 0]

\* Utf16Checker::check: the value returned and m_counts
Utf16Check(data) ==
    IF Len(data) < 2 \/ Len(data) % 2 = 1
    THEN [err |-> eSIZE, counts |-> NoCounts]
    ELSE LET e == determine_endiannes(data)
         IN  CheckUnits(data, e.first, e.little_endian, UNICODE_CHARACTER, NoCounts)

\* longest buffer enumerated exhaustively for Utf16Checker::check
MaxUtf16Len == 4

Utf16Alphabet == {0, 97, 216, 220, 254, 255}

\* more code units than determine_endiannes examines: 0x6161 a thousand
\* times, then one unit that is "a" read big-endian
LongSample ==
    [i \in 1..(2 * MAX_UNITS_TO_EXAMINE + 2) |->
        IF i = 2 * MAX_UNITS_TO_EXAMINE + 1 THEN 0 ELSE 97]

\* little-endian BOM, a surrogate pair, "a"; big-endian BOM, a surrogate
\* pair; big-endian BOM, a lone high surrogate; without BOM, little-endian:
\* pair "a", "a" pair, high low low, pair pair, high "a" low, "ab" high;
\* big-endian "abc", "ab" and a pair
Utf16Samples ==
    {<<255, 254, 0, 216, 0, 220, 97, 0>>,
     <<254, 255, 216, 0, 220, 0>>,
     <<254, 255, 216, 0>>,
     <<0, 216, 0, 220, 97, 0>>,
     <<97, 0, 0, 216, 0, 220>>,
     <<0, 216, 0, 220, 0, 220>>,
     <<0, 216, 0, 220, 0, 216, 0, 220>>,
     <<0, 216, 97, 0, 0, 220>>,
     <<97, 0, 98, 0, 0, 216>>,
     <<0, 97, 0, 98, 0, 99>>,
     <<0, 97, 0, 98, 216, 0, 220, 0>>,
     LongSample}

Utf16Buffers == SeqsUpTo(Utf16Alphabet, MaxUtf16Len) \cup Utf16Samples

InitUtf16 ==
    /\ BuildInit
    /\ ChkIdle /\ ClsIdle /\ FxrIdle /\ InvIdle /\ SessionIdle
    /\ u16 \in {[data |-> d, at |-> "start", little_endian |-> TRUE, first |-> 1,
                 pos |-> 1, previous_type |-> UNICODE_CHARACTER,
                 counts |-> NoCounts, err |-> eOK] : d \in Utf16Buffers}

\* Utf16Checker::check up to its loop: the size test, the reset of m_counts
\* and determine_endiannes
Utf16Begin ==
    /\ u16.at = "start"
    /\ IF Len(u16.data) < 2 \/ Len(u16.data) % 2 = 1
       THEN u16' = [u16 EXCEPT !.at = "returned", !.err = eSIZE]
       ELSE LET e == determine_endiannes(u16.data)
            IN  u16' = [u16 EXCEPT !.at = "loop",
                                   !.little_endian = e.little_endian,
                                   !.first = e.first,
                                   !.pos = e.first,
                                   !.previous_type = UNICODE_CHARACTER,
                                   !.counts = NoCounts]
    /\ UNCHANGED <<buildVars, chk, cls, fxr, inv, sessionVars>>

\* one iteration of the loop
Utf16Unit ==
    /\ u16.at = "loop"
    /\ u16.pos <= Len(u16.data)
    /\ LET r == CheckUnit(next_unit(u16.data, u16.pos, u16.little_endian),
                          u16.previous_type, u16.counts)
       IN  IF r.err = eINVALID
           THEN u16' = [u16 EXCEPT !.at = "returned", !.err = eINVALID,
                                   !.pos = @ + 2]
           ELSE u16' = [u16 EXCEPT !.pos = @ + 2, !.previous_type = r.type,
                                   !.counts = r.counts]
    /\ UNCHANGED <<buildVars, chk, cls, fxr, inv, sessionVars>>

\* next_unit returns END_SENTINEL: the test that follows the loop
Utf16End ==
    /\ u16.at = "loop"
    /\ u16.pos > Len(u16.data)
    /\ u16' = [u16 EXCEPT !.at = "returned", !.err = CheckEnd(u16.previous_type)]
    /\ UNCHANGED <<buildVars, chk, cls, fxr, inv, sessionVars>>

NextUtf16 == Utf16Begin \/ Utf16Unit \/ Utf16End

SpecUtf16 == InitUtf16 /\ [][NextUtf16]_vars

----------------------------------------------------------------------------
(* Normalizer::classify_invalid *)

eDONT_KNOW == 0
eBINARY == 1
eUTF16 == 2

elf_min_size == 50
ElfMagic == <<127, 69, 76, 70>>

classify_invalid_accepting_no_characters(data) ==
    LET size == Len(data)
        utf16 == Utf16Check(data)
        non_ascii == utf16.counts.total_characters - utf16.counts.normal_ascii
        normal == Cardinality({ix \in 1..size :
                      isprint(ToChar(data[ix])) \/ isspace(ToChar(data[ix]))})
        weird == size - normal
    IN  IF size > elf_min_size /\ SubSeq(data, 1, 4) = ElfMagic THEN eBINARY
        ELSE IF /\ utf16.err = eOK
                /\ utf16.counts.weird_ascii = 0
                /\ 20 * non_ascii <= utf16.counts.total_characters
        THEN eUTF16
        ELSE IF 5 * weird > normal THEN eBINARY
        ELSE eDONT_KNOW

classify_invalid(data) ==
    LET size == Len(data)
        utf16 == Utf16Check(data)
        non_ascii == utf16.counts.total_characters - utf16.counts.normal_ascii
        normal == Cardinality({ix \in 1..size :
                      isprint(ToChar(data[ix])) \/ isspace(ToChar(data[ix]))})
        weird == size - normal
    IN  IF size > elf_min_size /\ SubSeq(data, 1, 4) = ElfMagic THEN eBINARY
        ELSE IF /\ utf16.err = eOK
                /\ utf16.counts.weird_ascii = 0
                /\ 20 * non_ascii < utf16.counts.total_characters
        THEN eUTF16
        ELSE IF 5 * weird > normal THEN eBINARY
        ELSE eDONT_KNOW

\* longest buffer enumerated exhaustively for classify_invalid
MaxInvalidLen == 4

InvalidAlphabet == {0, 97, 1, 128, 216, 220, 254, 255}

\* "\x7fELF" + 47 bytes, "\x7fELF" + 46 bytes, "\x7fELF" + 78 bytes that read
\* as UTF-16LE text, BOM "ab\n" in UTF-16LE, BOM "a" in UTF-16BE,
\* "aaaaa\x01", "aaaa\x01", "\x80\x80\x80aaa"
InvalidSamples ==
    {ElfMagic \o [i \in 1..47 |-> IF i % 2 = 1 THEN 97 ELSE 0],
     ElfMagic \o [i \in 1..46 |-> IF i % 2 = 1 THEN 97 ELSE 0],
     ElfMagic \o [i \in 1..78 |-> IF i % 2 = 1 THEN 97 ELSE 0],
     <<255, 254, 97, 0, 98, 0, 10, 0>>,
     <<254, 255, 0, 97>>,
     <<97, 97, 97, 97, 97, 1>>,
     <<97, 97, 97, 97, 1>>,
     <<128, 128, 128, 97, 97, 97>>}

\* find_errors calls classify_invalid only for a buffer in which
\* classify_errors met a byte of its default case
HasInvalidCharacter(d) ==
    \E i \in DOMAIN d : (d[i] < SPACE \/ d[i] > TILDE) /\ d[i] \notin {TAB, LF, VT, FF, CR}

InvalidBuffers ==
    {d \in SeqsUpTo(InvalidAlphabet, MaxInvalidLen) : HasInvalidCharacter(d)}
        \cup {d \in InvalidSamples : HasInvalidCharacter(d)}

InitInvalid ==
    /\ BuildInit
    /\ ChkIdle /\ ClsIdle /\ FxrIdle /\ U16Idle /\ SessionIdle
    /\ inv \in {[data |-> d, called |-> FALSE, result |-> eDONT_KNOW] :
                  d \in InvalidBuffers}

CallClassifyInvalid ==
    /\ ~inv.called
    /\ inv' = [inv EXCEPT !.called = TRUE, !.result = classify_invalid(inv.data)]
    /\ UNCHANGED <<buildVars, chk, cls, fxr, u16, sessionVars>>

NextInvalid == CallClassifyInvalid

SpecInvalid == InitInvalid /\ [][NextInvalid]_vars

----------------------------------------------------------------------------
(* Normalizer::find_errors: the error bits and the message *)

\* the text is kept as a sequence of pieces; "," is a piece of its own
add_error_message(message, text) ==
    IF message # <<>> THEN message \o <<",", " ", text>> ELSE <<text>>

beautify_message_first_comma(text) ==
    LET commas == {i \in DOMAIN text : text[i] = ","}
    IN  IF commas = {} THEN text
        ELSE LET pos == CHOOSE i \in commas : \A j \in commas : j >= i
             IN  SubSeq(text, 1, pos) \o <<" and">> \o SubSeq(text, pos + 1, Len(text))

\* insert " and" after the last comma of the text, when it has one
beautify_message(text) ==
    LET commas == {i \in DOMAIN text : text[i] = ","}
    IN  IF commas = {} THEN text
        ELSE LET pos == CHOOSE i \in commas : \A j \in commas : j <= i
             IN  SubSeq(text, 1, pos) \o <<" and">> \o SubSeq(text, pos + 1, Len(text))

AddIf(message, errors, bit, text) ==
    IF BitAnd(errors, bit) # 0 THEN add_error_message(message, text) ELSE message

FoundErrors_adding_bits(data, e0) ==
    LET type == IF BitAnd(e0, err_invalid_characters) # 0
                THEN classify_invalid(data) ELSE eDONT_KNOW
        invalid == BitAnd(e0, err_invalid_characters) # 0
        errors == IF invalid /\ type = eBINARY THEN BitOr(e0, err_not_a_text_file)
                  ELSE IF invalid /\ type = eUTF16 THEN BitOr(e0, err_invalid_encoding)
                  ELSE e0
        m0 == IF invalid /\ type = eBINARY
              THEN <<"binary data. Probably not a text file.">>
              ELSE IF invalid /\ type = eUTF16
              THEN <<"invalid encoding. Possibly UTF-16">>
              ELSE <<>>
        m1 == AddIf(m0, errors, err_invalid_characters, "invalid characters")
        m2 == AddIf(m1, errors, err_tabs, "tabs")
        m3 == AddIf(m2, errors, err_unusual_whitespace, "unusual whitespace")
        m4 == AddIf(m3, errors, err_trailing_whitespace, "trailing whitespace")
        m5 == AddIf(m4, errors, err_cr_lf_line_endings, "CR-LF line endings")
        m6 == AddIf(m5, errors, err_no_lf_at_end, "no line feed at end")
    IN  [errors |-> errors,
         message |-> IF e0 = 0 THEN <<>> ELSE beautify_message(m6)]

\* m_errors and m_error_message when find_errors returns, for m_data = data
\* and e0 the value classify_errors returned
FoundErrors(data, e0) ==
    LET type == IF BitAnd(e0, err_invalid_characters) # 0
                THEN classify_invalid(data) ELSE eDONT_KNOW
        invalid == BitAnd(e0, err_invalid_characters) # 0
        errors == IF invalid /\ type = eBINARY THEN err_not_a_text_file
                  ELSE IF invalid /\ type = eUTF16 THEN err_invalid_encoding
                  ELSE e0
        m0 == IF invalid /\ type = eBINARY
              THEN <<"binary data. Probably not a text file.">>
              ELSE IF invalid /\ type = eUTF16
              THEN <<"invalid encoding. Possibly UTF-16">>
              ELSE <<>>
        m1 == AddIf(m0, errors, err_invalid_characters, "invalid characters")
        m2 == AddIf(m1, errors, err_tabs, "tabs")
        m3 == AddIf(m2, errors, err_unusual_whitespace, "unusual whitespace")
        m4 == AddIf(m3, errors, err_trailing_whitespace, "trailing whitespace")
        m5 == AddIf(m4, errors, err_cr_lf_line_endings, "CR-LF line endings")
        m6 == AddIf(m5, errors, err_no_lf_at_end, "no line feed at end")
    IN  [errors |-> errors,
         message |-> IF e0 = 0 THEN <<>> ELSE beautify_message(m6)]

----------------------------------------------------------------------------
(* Spec: Normalizer::normalize on one path *)

\* the tab width normalize hands to fix_the_file
fix_tab_width == 4

\* Options::set_tabsize: the sanity check on the --tabsize argument
set_tabsize(size) == ~(size < 1 \/ size > 100)

SessionAlphabet == {97, SPACE, TAB, LF, CR, 1, 128}

\* "a\tb\n", "ab\tcd", "abc \r\n", "\tx\n", "aaaaa\x01\t\n", "aaaaaa\x80",
\* BOM "a" "\n" in UTF-16LE, "a\n" in UTF-16LE without BOM, "\x7fELF" + 47 bytes
SessionSamples ==
    {<<97, 9, 98, 10>>,
     <<97, 98, 9, 99, 100>>,
     <<97, 98, 99, 32, 13, 10>>,
     <<9, 120, 10>>,
     <<97, 97, 97, 97, 97, 1, 9, 10>>,
     <<97, 97, 97, 97, 97, 97, 128>>,
     <<255, 254, 97, 0, 10, 0>>,
     <<97, 0, 10, 0>>,
     ElfMagic \o [i \in 1..47 |-> IF i % 2 = 1 THEN 97 ELSE 0]}

SessionBuffers == SeqsUpTo(SessionAlphabet, MaxFileLen) \cup SessionSamples

\* what an earlier run may have left at <path>.bak~ and <path>.tmp~
OldBackup == <<98, LF>>
StaleTemp == <<98>>

Init ==
    /\ BuildInit
    /\ ChkIdle /\ ClsIdle /\ FxrIdle /\ InvIdle /\ U16Idle
    /\ pc = "start"
    /\ fs \in {[orig |-> o, bak |-> b, tmp |-> t] :
                 o \in {NoFile} \cup {File(d) : d \in SessionBuffers},
                 b \in {NoFile, File(OldBackup)},
                 t \in {NoFile, File(StaleTemp)}}
    /\ fs0 = fs
    /\ can_open \in BOOLEAN
    /\ fix \in BOOLEAN
    /\ tabsize \in {size \in 1..MaxTab : set_tabsize(size)}
    /\ m_data = <<>>
    /\ m_errors = 0
    /\ m_error_message = <<>>
    /\ cerr = <<>>
    /\ events = <<>>

\* normalize up to the call of load_file, and load_file
LoadFile ==
    /\ pc = "start"
    /\ m_errors' = 0
    /\ m_error_message' = <<>>
    /\ IF can_open /\ fs.orig.exists
       THEN /\ m_data' = fs.orig.content
            /\ pc' = "loaded"
       ELSE /\ m_data' = <<>>
            /\ pc' = "done"
    /\ UNCHANGED <<buildVars, checkerVars, chk, cls, fxr, fs, fs0, can_open, fix, tabsize, cerr, events>>

\* find_errors calls classify_errors(m_data.data(), data_size())
CallClassify ==
    /\ pc = "loaded"
    /\ cls' = ClassifyCall(m_data)
    /\ pc' = "classify"
    /\ UNCHANGED <<buildVars, checkerVars, chk, fxr, fs, fs0, can_open, fix, tabsize, m_data,
                   m_errors, m_error_message, cerr, events>>

\* find_errors, from the value classify_errors returned on
FindErrors ==
    /\ pc = "classify"
    /\ cls.at = "returned"
    /\ LET found == FoundErrors(m_data, cls.errors)
       IN  /\ m_errors' = found.errors
           /\ m_error_message' = found.message
           /\ IF cls.errors = 0
              THEN /\ cerr' = cerr
                   /\ pc' = "done"
              ELSE /\ cerr' = Append(cerr, <<"File: ", "<path>", " has ">> \o found.message
                                           \o <<"\n">>)
                   /\ pc' = "reported"
    /\ UNCHANGED <<buildVars, checkerVars, chk, cls, fxr, fs, fs0, can_open, fix, tabsize, m_data, events>>

DecideFix_always ==
    /\ pc = "reported"
    /\ pc' = IF is_fixable(m_errors) THEN "fix" ELSE "done"
    /\ UNCHANGED <<buildVars, checkerVars, chk, cls, fxr, fs, fs0, can_open, fix, tabsize, m_data,
                   m_errors, m_error_message, cerr, events>>

\* if (fix && is_fixable(m_errors))
DecideFix ==
    /\ pc = "reported"
    /\ pc' = IF fix /\ is_fixable(m_errors) THEN "fix" ELSE "done"
    /\ UNCHANGED <<buildVars, checkerVars, chk, cls, fxr, fs, fs0, can_open, fix, tabsize, m_data,
                   m_errors, m_error_message, cerr, events>>

sessionData == <<buildVars, checkerVars, chk, cls, fxr, fs0, can_open, fix, tabsize, m_data,
                 m_errors, m_error_message>>

\* fix_the_file: the temporary file is written completely and the stream is good
FixTheFile ==
    /\ pc = "fix"
    /\ fs' = [fs EXCEPT !.tmp = File(FixedContent(m_data, fix_tab_width))]
    /\ events' = Append(events, "write_temp")
    /\ pc' = "remove_backup"
    /\ UNCHANGED <<sessionData, cerr>>

\* fix_the_file: the temporary file cannot be opened; nothing is written and
\* the stream is not good
FixTheFileNotOpened ==
    /\ pc = "fix"
    /\ events' = Append(events, "write_temp_failed")
    /\ pc' = "done"
    /\ UNCHANGED <<sessionData, fs, cerr>>

FixTheFileWriteFails_unchecked ==
    /\ pc = "fix"
    /\ \E n \in 0..(Len(FixedContent(m_data, fix_tab_width)) - 1) :
          fs' = [fs EXCEPT
                   !.tmp = File(SubSeq(FixedContent(m_data, fix_tab_width), 1, n))]
    /\ events' = Append(events, "write_temp_failed")
    /\ pc' = "remove_backup"
    /\ UNCHANGED <<sessionData, cerr>>

\* fix_the_file: a write fails; the temporary file holds a part of the
\* content and the stream is not good
FixTheFileWriteFails ==
    /\ pc = "fix"
    /\ \E n \in 0..(Len(FixedContent(m_data, fix_tab_width)) - 1) :
          fs' = [fs EXCEPT
                   !.tmp = File(SubSeq(FixedContent(m_data, fix_tab_width), 1, n))]
    /\ events' = Append(events, "write_temp_failed")
    /\ pc' = "done"
    /\ UNCHANGED <<sessionData, cerr>>

\* std::remove(backup): the result is not looked at
RemoveBackup ==
    /\ pc = "remove_backup"
    /\ \/ fs' = [fs EXCEPT !.bak = NoFile]
       \/ fs' = fs
    /\ events' = Append(events, "remove_backup")
    /\ pc' = "rename_original"
    /\ UNCHANGED <<sessionData, cerr>>

RenameOriginalFails_unchecked ==
    /\ pc = "rename_original"
    /\ cerr' = Append(cerr, <<"Could not rename ", "<path>", " to ", "<path>.bak~">>)
    /\ events' = Append(events, "rename_original_failed")
    /\ pc' = "rename_temp"
    /\ UNCHANGED <<sessionData, fs>>

\* rename_file(m_full_name, backup) succeeds
RenameOriginal ==
    /\ pc = "rename_original"
    /\ fs' = [fs EXCEPT !.bak = fs.orig, !.orig = NoFile]
    /\ events' = Append(events, "rename_original")
    /\ pc' = "rename_temp"
    /\ UNCHANGED <<sessionData, cerr>>

\* rename_file(m_full_name, backup) fails: the message, and no second rename
RenameOriginalFails ==
    /\ pc = "rename_original"
    /\ cerr' = Append(cerr, <<"Could not rename ", "<path>", " to ", "<path>.bak~">>)
    /\ events' = Append(events, "rename_original_failed")
    /\ pc' = "done"
    /\ UNCHANGED <<sessionData, fs>>

\* rename_file(m_temp_name, m_full_name) succeeds
RenameTemp ==
    /\ pc = "rename_temp"
    /\ fs' = [fs EXCEPT !.orig = fs.tmp, !.tmp = NoFile]
    /\ events' = Append(events, "rename_temp")
    /\ pc' = "done"
    /\ UNCHANGED <<sessionData, cerr>>

\* rename_file(m_temp_name, m_full_name) fails: the message
RenameTempFails ==
    /\ pc = "rename_temp"
    /\ cerr' = Append(cerr, <<"Could not rename ", "<path>.tmp~", " to ", "<path>">>)
    /\ events' = Append(events, "rename_temp_failed")
    /\ pc' = "done"
    /\ UNCHANGED <<sessionData, fs>>

Next ==
    \/ LoadFile
    \/ CallClassify
    \/ ClassifyStep
    \/ ClassifyReturn
    \/ FindErrors
    \/ DecideFix
    \/ FixTheFile
    \/ FixTheFileNotOpened
    \/ FixTheFileWriteFails
    \/ RemoveBackup
    \/ RenameOriginal
    \/ RenameOriginalFails
    \/ RenameTemp
    \/ RenameTempFails

Spec == Init /\ [][Next]_vars

----------------------------------------------------------------------------
(* Properties *)

Has(errors, bits) == \E b \in bits : HasBit(errors, b)

\* C1: is_fixable is true exactly when no Hopeless bit (invalid-encoding,
\* invalid-characters, not-a-text-file) is set and at least one Fixable bit
\* is set; a set with a Hopeless bit is never fixable, the empty set is not
\* fixable.
C1_FixableIffNoHopelessAndSomeFixable ==
    chk.called =>
        /\ chk.result <=> (~Has(chk.errors, HopelessBits) /\ Has(chk.errors, FixableBits))
        /\ Has(chk.errors, HopelessBits) => ~chk.result
        /\ chk.errors = 0 => ~chk.result

C1_Witness ==
    /\ chk.called
    /\ HasBit(chk.errors, err_invalid_characters)
    /\ HasBit(chk.errors, err_tabs)
    /\ ~chk.result

Printable(b) == b >= 32 /\ b <= 126

CleanText(d) ==
    /\ \A i \in DOMAIN d : Printable(d[i]) \/ d[i] = LF
    /\ \A i \in DOMAIN d : (d[i] = LF /\ i > 1) => d[i - 1] # SPACE
    /\ d[Len(d)] = LF

\* C9: classify_errors returns no error bit exactly for the empty buffer and
\* for buffers of printable ASCII and line feeds in which no line feed
\* follows a space and the last byte is a line feed; every non-empty buffer
\* not ending in a line feed has the no-line-feed-at-end bit.
C9_EmptySetExactlyForCleanText ==
    cls.at = "returned" =>
        /\ cls.errors = 0 <=> (cls.data = <<>> \/ CleanText(cls.data))
        /\ (cls.data # <<>> /\ cls.data[Len(cls.data)] # LF)
              => HasBit(cls.errors, err_no_lf_at_end)

C9_Witness ==
    /\ cls.at = "returned"
    /\ Len(cls.data) >= 3
    /\ CleanText(cls.data)
    /\ \E i \in DOMAIN cls.data : cls.data[i] = SPACE
    /\ cls.errors = 0

CrLfAt(d, i) == i < Len(d) /\ d[i] = CR /\ d[i + 1] = LF

\* C10: the CR-LF bit is set exactly when some carriage return is directly
\* followed by a line feed; the unusual-whitespace bit exactly when the
\* buffer holds a vertical tab, a form feed or a carriage return not
\* directly followed by a line feed; the running count of unusual
\* whitespace is never negative during the scan.
C10_CrLfAndUnusualWhitespace ==
    /\ cls.st.unusual_whitespace >= 0
    /\ cls.at = "returned" =>
        /\ HasBit(cls.errors, err_cr_lf_line_endings)
              <=> \E i \in DOMAIN cls.data : CrLfAt(cls.data, i)
        /\ HasBit(cls.errors, err_unusual_whitespace)
              <=> \E i \in DOMAIN cls.data :
                     \/ cls.data[i] \in {VT, FF}
                     \/ cls.data[i] = CR /\ ~CrLfAt(cls.data, i)

\* "abc\r\ndef\n" yields the CR-LF bit alone
C10_Witness ==
    /\ cls.at = "returned"
    /\ cls.data = <<97, 98, 99, 13, 10, 100, 101, 102, 10>>
    /\ cls.errors = err_cr_lf_line_endings

\* C5: the fixer is idempotent: run on its own output, with the same tab
\* width, it writes that output again, byte for byte.
C5_FixIsIdempotent ==
    (fxr.done /\ fxr.pass = 2) => fxr.st.output = fxr.first

C5_Witness ==
    /\ fxr.done
    /\ fxr.pass = 2
    /\ \E i \in DOMAIN fxr.first : fxr.first[i] = SPACE
    /\ Len(fxr.first) >= 4
    /\ fxr.st.output = fxr.first

\* C6: for a buffer whose error bits are fixable, the fixed content has no
\* error bit: no tab, no CR, VT or FF, no whitespace before a line feed, and
\* it is empty or ends with a line feed.
C6_FixRemovesEveryFixableDefect ==
    (fxr.done /\ fxr.pass = 1 /\ is_fixable(classify_errors(fxr.data))) =>
        LET out == fxr.st.output
        IN  /\ classify_errors(out) = 0
            /\ \A i \in DOMAIN out : out[i] \notin {TAB, CR, VT, FF}
            /\ \A i \in DOMAIN out : (out[i] = LF /\ i > 1) => out[i - 1] # SPACE
            /\ out = <<>> \/ out[Len(out)] = LF

C6_Witness ==
    /\ fxr.done
    /\ fxr.pass = 1
    /\ fxr.data = <<97, 98, 99, 13, 10, 100, 101, 102, 10>>
    /\ fxr.st.output = <<97, 98, 99, 10, 100, 101, 102, 10>>

\* the smallest multiple of w that is greater than c
NextTabStop(c, w) == CHOOSE m \in (c + 1)..(c + w) : m % w = 0

\* C7: a tab met when the line holds c characters is replaced by spaces up
\* to the smallest multiple of the tab width greater than c (1 to w spaces);
\* with width 4, "a<TAB>b" becomes "a   b" and "ab<TAB>cd" becomes "ab  cd".
C7_TabExpandsToNextTabStop ==
    /\ fxr.last = "tab" =>
          /\ Len(fxr.st.line) = NextTabStop(fxr.col, fxr.tab_width)
          /\ Len(fxr.st.line) - fxr.col \in 1..fxr.tab_width
    /\ (fxr.done /\ fxr.tab_width = 4 /\ fxr.data = <<97, 9, 98>>)
          => fxr.st.output = <<97, 32, 32, 32, 98, 10>>
    /\ (fxr.done /\ fxr.tab_width = 4 /\ fxr.data = <<97, 98, 9, 99, 100>>)
          => fxr.st.output = <<97, 98, 32, 32, 99, 100, 10>>

CountLF(d) == Cardinality({i \in DOMAIN d : d[i] = LF})

\* the bytes after the last line feed
LastLine(d) ==
    LET lfs == {i \in DOMAIN d : d[i] = LF}
        from == IF lfs = {} THEN 1 ELSE 1 + CHOOSE i \in lfs : \A j \in lfs : j <= i
    IN  SubSeq(d, from, Len(d))

HasContent(line) == \E i \in DOMAIN line : ~isspace(ToChar(line[i]))

\* C8: the fixed content is empty or ends with a line feed, and it has as
\* many line feeds as the input, plus one exactly when the input's last,
\* unterminated line is not empty once its trailing whitespace is trimmed.
C8_FinalNewlineRule ==
    fxr.done =>
        LET out == fxr.st.output
        IN  /\ out = <<>> \/ out[Len(out)] = LF
            /\ CountLF(out) = CountLF(fxr.data)
                              + (IF HasContent(LastLine(fxr.data)) THEN 1 ELSE 0)

\* "abc" becomes "abc\n"
C8_Witness ==
    /\ fxr.done
    /\ fxr.pass = 1
    /\ fxr.data = <<97, 98, 99>>
    /\ fxr.st.output = <<97, 98, 99, 10>>

FixWanted == fix /\ Has(m_errors, FixableBits) /\ ~Has(m_errors, HopelessBits)

\* C2: normalize creates, removes or renames a file only if fixing was
\* requested and the final error bits have a Fixable bit and no Hopeless
\* bit; in every other case the files are left exactly as they were.
C2_FilesChangeOnlyWhenFixingFixable ==
    /\ fs # fs0 => FixWanted
    /\ (pc = "done" /\ ~FixWanted) => (fs = fs0 /\ events = <<>>)

\* fixing requested for a file with tabs and an invalid character
C2_Witness ==
    /\ pc = "done"
    /\ fix
    /\ HasBit(m_errors, err_invalid_characters)
    /\ HasBit(m_errors, err_tabs)
    /\ fs0.bak.exists
    /\ fs = fs0

\* C3: in every state of a fix (after each file operation, whichever of them
\* fail) the complete pre-fix content of the file is at the original path or
\* at the .bak~ path.
C3_OriginalContentNeverLost ==
    fs0.orig.exists => (fs.orig = fs0.orig \/ fs.bak = fs0.orig)

\* the original was renamed, the temporary could not be
C3_Witness ==
    /\ pc = "done"
    /\ events = <<"write_temp", "remove_backup", "rename_original", "rename_temp_failed">>
    /\ ~fs.orig.exists
    /\ fs.bak = fs0.orig
    /\ fs.tmp.exists

FixCompleted ==
    /\ pc = "done"
    /\ events = <<"write_temp", "remove_backup", "rename_original", "rename_temp">>

\* C4: when the temporary file is written and both renames succeed, the
\* original path holds the fixed content for the tab width of the
\* invocation, <path>.bak~ holds the pre-fix content (replacing any earlier
\* backup) and no <path>.tmp~ remains.
C4_CompletedFixLeavesFixedFileAndBackup ==
    FixCompleted =>
        /\ fs.orig = File(FixedContent(fs0.orig.content, tabsize))
        /\ fs.bak = fs0.orig
        /\ ~fs.tmp.exists

\* the whitespace bytes that can end a line before its line feed
LineWhitespace == {SPACE, TAB, CR, VT, FF}

\* the line feed at d[i] ends a line whose last byte, the carriage return of
\* a CR-LF pair apart, is whitespace
TrailingAt(d, i) ==
    /\ d[i] = LF
    /\ \/ i > 1 /\ d[i - 1] \in LineWhitespace \ {CR}
       \/ i > 2 /\ d[i - 1] = CR /\ d[i - 2] \in LineWhitespace

\* C11: the trailing-whitespace bit is set exactly when some line feed has a
\* whitespace byte (space, tab, CR, VT, FF) directly before it on the same
\* line, or directly before the carriage return that precedes it; the line
\* feed of the previous line, an empty line, a CR-LF-only line and
\* whitespace ending an unterminated last line never set it.
C11_TrailingWhitespaceExactly ==
    cls.at = "returned" =>
        /\ HasBit(cls.errors, err_trailing_whitespace)
              <=> \E i \in DOMAIN cls.data : TrailingAt(cls.data, i)
        /\ (\A i \in DOMAIN cls.data : cls.data[i] \in {LF, CR, 97})
              => (HasBit(cls.errors, err_trailing_whitespace)
                    <=> \E i \in DOMAIN cls.data :
                           i > 2 /\ cls.data[i] = LF /\ cls.data[i - 1] = CR
                                 /\ cls.data[i - 2] = CR)

\* "abc \n" sets the bit
C11_Witness ==
    /\ cls.at = "returned"
    /\ cls.data = <<97, 98, 99, 32, 10>>
    /\ cls.errors = err_trailing_whitespace

\* an empty line, a CR-LF-only line and a space ending the unterminated last
\* line leave the bit clear
C11_WitnessClear ==
    /\ cls.at = "returned"
    /\ cls.data = <<10, 13, 10, 32>>
    /\ ~HasBit(cls.errors, err_trailing_whitespace)

\* the buffer is longer than 50 bytes and begins with the ELF magic
ElfFires(d) == Len(d) > 50 /\ SubSeq(d, 1, 4) = <<127, 69, 76, 70>>

\* the UTF-16 acceptance test of the resolver
Utf16Accepted(d) ==
    LET u == Utf16Check(d)
    IN  /\ u.err = eOK
        /\ u.counts.weird_ascii = 0
        /\ 20 * (u.counts.total_characters - u.counts.normal_ascii)
              < u.counts.total_characters

\* a byte that is printable or whitespace in the "C" locale
PrintableOrWhitespace(b) == Printable(b) \/ b \in {TAB, LF, VT, FF, CR}

\* the ratio test: 5 * (bytes neither printable nor whitespace) > the others
RatioFires(d) ==
    LET weird == Cardinality({i \in DOMAIN d : ~PrintableOrWhitespace(d[i])})
    IN  5 * weird > Len(d) - weird

\* C12: classify_invalid returns binary exactly when the ELF test fires, or
\* the ELF and UTF-16 tests both fail and the ratio test fires; an ELF
\* buffer is never utf16; when none of the three tests fires the result is
\* unknown.
C12_BinaryExactly ==
    inv.called =>
        IF ElfFires(inv.data) THEN inv.result = eBINARY
        ELSE /\ inv.result = eBINARY
                  <=> ~Utf16Accepted(inv.data) /\ RatioFires(inv.data)
             /\ (~Utf16Accepted(inv.data) /\ ~RatioFires(inv.data))
                  => inv.result = eDONT_KNOW

\* the same statement for the builds in which isprint and isspace answer
\* FALSE for a negative char
C12_BinaryExactlyWhenHighBytesAreWeird ==
    (~hi_isprint /\ ~hi_isspace) => C12_BinaryExactly

\* the little-endian byte order mark followed by one or more printable or
\* whitespace ASCII characters, each one 16-bit little-endian code unit
BomAsciiText(d) ==
    /\ Len(d) >= 4 /\ Len(d) % 2 = 0
    /\ d[1] = 255 /\ d[2] = 254
    /\ \A i \in 3..Len(d) :
          IF i % 2 = 1 THEN PrintableOrWhitespace(d[i]) ELSE d[i] = 0

\* C13: classify_invalid returns utf16 exactly when the ELF test does not
\* fire, the UTF-16 check returns ok, no weird ASCII was counted and
\* 20 * (total_characters - normal_ascii) < total_characters; the
\* little-endian BOM followed by ASCII text in 16-bit units is utf16.
C13_Utf16Exactly ==
    inv.called =>
        /\ inv.result = eUTF16
              <=> ~ElfFires(inv.data) /\ Utf16Accepted(inv.data)
        /\ BomAsciiText(inv.data) => inv.result = eUTF16

\* BOM "ab\n" in UTF-16LE is classified utf16
C13_Witness ==
    /\ inv.called
    /\ inv.data = <<255, 254, 97, 0, 98, 0, 10, 0>>
    /\ inv.result = eUTF16

\* find_errors has returned in this session
FindErrorsReturned == cls.at = "returned" /\ pc # "classify"

\* C14: after find_errors the session's error set is the classifier's set
\* unchanged (no invalid character, or the resolver answers unknown), or
\* exactly not-a-text-file (binary), or exactly invalid-encoding (utf16);
\* the two never appear together, with a fixable bit or with
\* invalid-characters.
C14_FinalDefectSetShape ==
    FindErrorsReturned =>
        LET invalid == HasBit(cls.errors, err_invalid_characters)
            type == classify_invalid(m_data)
        IN  /\ m_errors = IF ~invalid \/ type = eDONT_KNOW THEN cls.errors
                          ELSE IF type = eBINARY THEN err_not_a_text_file
                          ELSE err_invalid_encoding
            /\ ~invalid => /\ ~HasBit(m_errors, err_not_a_text_file)
                           /\ ~HasBit(m_errors, err_invalid_encoding)
            /\ (HasBit(m_errors, err_not_a_text_file)
                  \/ HasBit(m_errors, err_invalid_encoding))
                  => m_errors \in {err_not_a_text_file, err_invalid_encoding}

\* BOM "a\n" in UTF-16LE: the classifier's bits are replaced by invalid-encoding
C14_Witness ==
    /\ FindErrorsReturned
    /\ m_data = <<255, 254, 97, 0, 10, 0>>
    /\ HasBit(cls.errors, err_invalid_characters)
    /\ HasBit(cls.errors, err_no_lf_at_end)
    /\ m_errors = err_invalid_encoding

\* the fixed phrases, in the order in which they are listed
PhraseOrder ==
    << [bit |-> err_not_a_text_file, text |-> "binary data. Probably not a text file."],
       [bit |-> err_invalid_encoding, text |-> "invalid encoding. Possibly UTF-16"],
       [bit |-> err_invalid_characters, text |-> "invalid characters"],
       [bit |-> err_tabs, text |-> "tabs"],
       [bit |-> err_unusual_whitespace, text |-> "unusual whitespace"],
       [bit |-> err_trailing_whitespace, text |-> "trailing whitespace"],
       [bit |-> err_cr_lf_line_endings, text |-> "CR-LF line endings"],
       [bit |-> err_no_lf_at_end, text |-> "no line feed at end" ] >>

PhraseListed(errors, p) == HasBit(errors, p.bit)

\* the phrases of an error set, one per finding, in order
Phrases(errors) == SelectSeq(PhraseOrder, LAMBDA p : PhraseListed(errors, p))

RECURSIVE JoinPhrases(_, _)
\* phrases i.. of ph, each preceded by ", ", the last one by ", and "
JoinPhrases(ph, i) ==
    IF i > Len(ph) THEN <<>>
    ELSE (IF i = Len(ph) THEN <<",", " and", " ">> ELSE <<",", " ">>)
           \o <<ph[i].text>> \o JoinPhrases(ph, i + 1)

\* the defect line for an error set
DefectLine(errors) ==
    LET ph == Phrases(errors)
    IN  <<"File: ", "<path>", " has ">> \o <<ph[1].text>> \o JoinPhrases(ph, 2) \o <<"\n">>

IsDefectLine(line) == Len(line) > 0 /\ line[1] = "File: "

\* C15: a file that loads with a non-empty final error set gets exactly one
\* line "File: <path> has <message>", the message being one phrase per
\* finding in the fixed order, joined by ", ", with "and" before the last
\* of two or more; for an empty set, and before find_errors has run,
\* nothing is written.
C15_DefectLineFormat ==
    IF FindErrorsReturned /\ m_errors # 0
    THEN /\ Len(cerr) >= 1
         /\ cerr[1] = DefectLine(m_errors)
         /\ \A i \in 2..Len(cerr) : ~IsDefectLine(cerr[i])
    ELSE cerr = <<>>

\* "aaaaa\x01\t\n": three phrases
C15_Witness ==
    /\ FindErrorsReturned
    /\ m_data = <<97, 97, 97, 97, 97, 1, 9, 10>>
    /\ cerr = << <<"File: ", "<path>", " has ", "invalid characters", ",", " ",
                   "tabs", ",", " and", " ", "trailing whitespace", "\n">> >>

\* C16: the fix writes fix(buffer, n) for the tab size n of the invocation,
\* for every n that --tabsize accepts.
C16_FixUsesConfiguredTabWidth ==
    (pc = "remove_backup" /\ set_tabsize(tabsize))
        => fs.tmp = File(FixedContent(m_data, tabsize))

\* what the fix writes instead: the content for a tab width of 4
C16_FixUsesTabWidthFour ==
    pc = "remove_backup" => fs.tmp = File(FixedContent(m_data, fix_tab_width))

\* normalize has returned because load_file could not open the file
LoadFailed == pc = "done" /\ cls.at = "idle"

\* after a failed load nothing was classified, written, removed or renamed
NoWorkDone ==
    /\ cls.at = "idle"
    /\ m_data = <<>> /\ m_errors = 0 /\ m_error_message = <<>>
    /\ fs = fs0
    /\ events = <<>>

\* C17: when the file cannot be opened, normalize does no further work for
\* it and the failure is communicated to the caller.  normalize returns
\* void, so the only channel it has is the diagnostic stream.
C17_LoadFailureCommunicated ==
    LoadFailed => NoWorkDone /\ cerr # <<>>

\* the first half alone
C17_NoWorkAfterLoadFailure ==
    LoadFailed => NoWorkDone

\* a failed load and a clean file leave the same trace: none
C17_LoadFailureIsSilent ==
    LoadFailed => cerr = <<>>

\* the steps of the replacement that follow the writing of the temporary file
ReplacementSteps ==
    {"remove_backup", "rename_original", "rename_original_failed",
     "rename_temp", "rename_temp_failed"}

\* C18: the backup is removed and the original renamed only after the
\* temporary file was written completely with the stream good; a failed
\* write is followed by no removal and no rename; the temporary file is
\* renamed only after the original was renamed to the backup, so a failed
\* first rename leaves the original at its path with its content.
C18_ReplacementOrder ==
    /\ \A i \in DOMAIN events :
          events[i] \in ReplacementSteps => i > 1 /\ events[1] = "write_temp"
    /\ (events # <<>> /\ events[1] = "write_temp" /\ pc \in {"remove_backup", "rename_original"})
          => /\ fs.tmp.exists
             /\ fs.tmp.content = FixedContent(m_data, fix_tab_width)
    /\ (events = <<>> \/ events[1] = "write_temp_failed")
          => /\ Len(events) <= 1
             /\ fs.orig = fs0.orig
             /\ fs.bak = fs0.bak
    /\ \A i \in DOMAIN events :
          events[i] \in {"rename_original", "rename_original_failed"}
              => i > 1 /\ events[i - 1] = "remove_backup"
    /\ \A i \in DOMAIN events :
          events[i] \in {"rename_temp", "rename_temp_failed"}
              => i > 1 /\ events[i - 1] = "rename_original"
    /\ \A i \in DOMAIN events :
          events[i] = "rename_original_failed"
              => i = Len(events) /\ pc = "done" /\ fs.orig = fs0.orig

\* the old backup was removed, then the first rename failed: the original
\* is still at its path and the temporary file was not renamed
C18_Witness ==
    /\ events = <<"write_temp", "remove_backup", "rename_original_failed">>
    /\ pc = "done"
    /\ fs0.bak.exists /\ ~fs.bak.exists
    /\ fs.orig = fs0.orig
    /\ fs.tmp.exists

\* a failed write ends the session with the original and the backup untouched
C18_WitnessWriteFails ==
    /\ events = <<"write_temp_failed">>
    /\ pc = "done"
    /\ fs0.bak.exists /\ fs.bak = fs0.bak
    /\ fs.orig = fs0.orig

\* the number of code units that follow the byte order mark, and the k-th
\* of them under the byte order chosen
UnitCount == (Len(u16.data) - u16.first + 1) \div 2

UnitAt(k) ==
    LET i == u16.first + 2 * (k - 1)
    IN  IF u16.little_endian THEN u16.data[i] + 256 * u16.data[i + 1]
        ELSE 256 * u16.data[i] + u16.data[i + 1]

\* 0xD800-0xDBFF and 0xDC00-0xDFFF
IsHigh(code) == code >= 55296 /\ code <= 56319
IsLow(code) == code >= 56320 /\ code <= 57343

\* a low surrogate without a high surrogate just before it, or a high
\* surrogate without a low surrogate just after it
LonelySurrogate ==
    \E k \in 1..UnitCount :
        \/ IsLow(UnitAt(k)) /\ (k = 1 \/ ~IsHigh(UnitAt(k - 1)))
        \/ IsHigh(UnitAt(k)) /\ (k = UnitCount \/ ~IsLow(UnitAt(k + 1)))

\* the check has returned something other than eSIZE
Utf16Checked == u16.at = "returned" /\ Len(u16.data) >= 2 /\ Len(u16.data) % 2 = 0

\* C19: for a buffer of even length >= 2 the check returns invalid exactly
\* when the code units after the byte order mark hold a lonely surrogate;
\* otherwise it returns ok and total_characters is the number of plain
\* units plus the number of surrogate pairs.
C19_InvalidExactlyForLonelySurrogates ==
    Utf16Checked =>
        /\ u16.err = (IF LonelySurrogate THEN eINVALID ELSE eOK)
        /\ u16.err = eOK =>
              u16.counts.total_characters =
                  Cardinality({k \in 1..UnitCount :
                                  ~IsHigh(UnitAt(k)) /\ ~IsLow(UnitAt(k))})
                  + Cardinality({k \in 1..UnitCount : IsLow(UnitAt(k))})

\* little-endian BOM, a surrogate pair, "a": ok, two characters
C19_Witness ==
    /\ Utf16Checked
    /\ u16.data = <<255, 254, 0, 216, 0, 220, 97, 0>>
    /\ u16.err = eOK
    /\ u16.counts.total_characters = 2

\* high "a" low: invalid
C19_WitnessInvalid ==
    /\ Utf16Checked
    /\ u16.data = <<0, 216, 97, 0, 0, 220>>
    /\ u16.err = eINVALID

\* 0x09-0x0D or 0x20-0x7E
NormalAscii(code) == (code >= 9 /\ code <= 13) \/ (code >= 32 /\ code <= 126)

\* how many of the first min(1000, number of units) code units of d are
\* normal ASCII when read big-endian, and when read little-endian
SampledUnits(d) == 1..(IF Len(d) \div 2 < 1000 THEN Len(d) \div 2 ELSE 1000)
BigEndianScore(d) ==
    Cardinality({k \in SampledUnits(d) : NormalAscii(256 * d[2 * k - 1] + d[2 * k])})
LittleEndianScore(d) ==
    Cardinality({k \in SampledUnits(d) : NormalAscii(d[2 * k - 1] + 256 * d[2 * k])})

\* C20: the check returns eSIZE exactly when the length is below 2 or odd;
\* otherwise FF FE gives little-endian and FE FF big-endian, the mark
\* being skipped, and without a mark big-endian is chosen exactly when
\* strictly more of the first min(1000, units) units are normal ASCII read
\* big-endian than read little-endian.
C20_SizeAndByteOrder ==
    u16.at # "start" =>
        LET d == u16.data
        IN  IF Len(d) < 2 \/ Len(d) % 2 = 1
            THEN u16.at = "returned" /\ u16.err = eSIZE
            ELSE /\ u16.err # eSIZE
                 /\ IF d[1] = 255 /\ d[2] = 254
                    THEN u16.little_endian /\ u16.first = 3
                    ELSE IF d[1] = 254 /\ d[2] = 255
                    THEN ~u16.little_endian /\ u16.first = 3
                    ELSE /\ u16.first = 1
                         /\ ~u16.little_endian
                               <=> BigEndianScore(d) > LittleEndianScore(d)
                 /\ (u16.at = "returned" /\ u16.err = eOK)
                       => u16.counts.total_characters <= UnitCount

\* the unit after the first thousand would tip the choice to big-endian;
\* it is not examined and the tie resolves to little-endian
C20_Witness ==
    /\ u16.at = "returned"
    /\ u16.data = LongSample
    /\ u16.little_endian
    /\ u16.err = eOK
    /\ u16.counts.total_characters = 1001

\* "abc" big-endian without a mark is read big-endian
C20_WitnessBigEndian ==
    /\ u16.at = "returned"
    /\ u16.data = <<0, 97, 0, 98, 0, 99>>
    /\ ~u16.little_endian
    /\ u16.counts.normal_ascii = 3

\* the bytes of d that are not whitespace, in order
NonWhitespace(d) == SelectSeq(d, LAMBDA b : b \notin {SPACE, TAB, LF, VT, FF, CR})

\* the number of the line that holds d[i]: lines end at their line feed
LineNumber(d, i) == 1 + Cardinality({j \in 1..(i - 1) : d[j] = LF})

\* the bytes of the k-th line of d, its line feed left out; empty when d has
\* no such line
LineAt(d, k) ==
    LET at == {i \in DOMAIN d : LineNumber(d, i) = k /\ d[i] # LF}
    IN  IF at = {} THEN <<>>
        ELSE SubSeq(d, CHOOSE i \in at : \A j \in at : i <= j,
                       CHOOSE i \in at : \A j \in at : j <= i)

\* C21: the fixer only changes whitespace: for a buffer whose error bits are
\* fixable, the fixed content has the same non-whitespace bytes in the same
\* order as the buffer, and its k-th line has the non-whitespace bytes of
\* the buffer's k-th line, for every k.
C21_FixOnlyChangesWhitespace ==
    (fxr.done /\ fxr.pass = 1 /\ is_fixable(classify_errors(fxr.data))) =>
        LET out == fxr.st.output
        IN  /\ NonWhitespace(out) = NonWhitespace(fxr.data)
            /\ \A k \in 1..(Len(fxr.data) + 1) :
                  NonWhitespace(LineAt(out, k)) = NonWhitespace(LineAt(fxr.data, k))

\* "a \na" becomes "a\na\n": each "a" stays on its line
C21_Witness ==
    /\ fxr.done
    /\ fxr.pass = 1
    /\ fxr.data = <<97, 32, 10, 97>>
    /\ is_fixable(classify_errors(fxr.data))
    /\ fxr.st.output = <<97, 10, 97, 10>>

====
